---- MODULE Spec2Model ----
(***************************************************************************)
(* Model of graph-cli's option normaliser (src/options.py):                *)
(* get_column_name, fill_list, fill_args, fill_global_args and             *)
(* validate_args.                                                          *)
(*                                                                         *)
(* Python values are tagged records so that values of different Python     *)
(* types can be compared (Python's == between a str and None is False;     *)
(* TLC's = between a tuple and a record is an error):                      *)
(*   None        [t |-> "None"]                                            *)
(*   str         [t |-> "str",  s |-> <<one-character strings>>]           *)
(*   list/tuple  [t |-> "list", l |-> <<values>>]                          *)
(*   int/float   [t |-> "int",  n |-> Int]                                 *)
(*   bool        [t |-> "bool", b |-> BOOLEAN]                             *)
(* A call either returns a value or raises: [exc |-> "none", val |-> v]    *)
(* or [exc |-> <exception class>, val |-> None].                           *)
(***************************************************************************)
EXTENDS Integers, Sequences, FiniteSets, TLC

VARIABLES
    pc,     \* position of the run inside validate_args
    raw,    \* the argparse namespace handed to validate_args (RawOptions)
    df,     \* the table pd.read_csv returns
    args,   \* the namespace validate_args rewrites in place
    prev,   \* the namespace returned by an earlier run on the same raw and df
    fl,     \* one call of fill_list: its arguments and its outcome
    gc      \* one call of get_column_name: its arguments and its outcome

vars == <<pc, raw, df, args, prev, fl, gc>>

-----------------------------------------------------------------------------
(* Bounds *)

MaxLst == 3        \* longest input list handed to fill_list
MaxDefaults == 3   \* longest default sequence handed to fill_list
MaxLength == 7     \* largest target length handed to fill_list
MaxTokenLen == 2   \* longest column token handed to get_column_name
MaxSeries == 11    \* largest number of y tokens in one run

-----------------------------------------------------------------------------
(* Python values *)

None == [t |-> "None"]
S(chars) == [t |-> "str", s |-> chars]
L(elems) == [t |-> "list", l |-> elems]
I(n) == [t |-> "int", n |-> n]
B(b) == [t |-> "bool", b |-> b]

Ok(v) == [exc |-> "none", val |-> v]
Raise(e) == [exc |-> e, val |-> None]

\* Python truthiness, as used by `if not lst`, `if not length`,
\* `if args.xrange`, `if not args.title`, `if map_fn`.
Falsy(v) ==
    \/ v = None
    \/ v = S(<<>>)
    \/ v = L(<<>>)
    \/ v = I(0)
    \/ v = B(FALSE)

Digits == {"0", "1", "2", "3", "4", "5", "6", "7", "8", "9"}

DigitVal(c) ==
    CASE c = "0" -> 0 [] c = "1" -> 1 [] c = "2" -> 2 [] c = "3" -> 3
      [] c = "4" -> 4 [] c = "5" -> 5 [] c = "6" -> 6 [] c = "7" -> 7
      [] c = "8" -> 8 [] c = "9" -> 9

IsDigits(chars) ==
    /\ Len(chars) >= 1
    /\ \A i \in 1..Len(chars) : chars[i] \in Digits

RECURSIVE DigitsVal(_)
DigitsVal(chars) ==
    IF chars = <<>> THEN 0
    ELSE 10 * DigitsVal(SubSeq(chars, 1, Len(chars) - 1)) + DigitVal(chars[Len(chars)])

\* The literals int() and float() accept among the strings of the model:
\* an optional sign followed by decimal digits.  (The alphabets used below
\* hold no blank, no '.', no 'e' and no '_' inside a number.)
IsIntLiteral(chars) ==
    \/ IsDigits(chars)
    \/ /\ Len(chars) >= 2
       /\ chars[1] \in {"-", "+"}
       /\ IsDigits(Tail(chars))

IntLiteralVal(chars) ==
    IF chars[1] = "-" THEN 0 - DigitsVal(Tail(chars))
    ELSE IF chars[1] = "+" THEN DigitsVal(Tail(chars))
    ELSE DigitsVal(chars)

\* int(v): a str is parsed (ValueError when it is no literal), an int is
\* itself, a bool is 0 or 1, None is a TypeError.
int(v) ==
    CASE v.t = "str" -> IF IsIntLiteral(v.s) THEN Ok(I(IntLiteralVal(v.s)))
                        ELSE Raise("ValueError")
      [] v.t = "int" -> Ok(v)
      [] v.t = "bool" -> Ok(I(IF v.b THEN 1 ELSE 0))
      [] OTHER -> Raise("TypeError")

\* str.replace(old, new) for one-character old and new.
replace(chars, old, new) ==
    [i \in 1..Len(chars) |-> IF chars[i] = old THEN new ELSE chars[i]]

\* str.split(sep) for a one-character sep: the pieces between separators,
\* empty pieces included ("".split(',') == [''], "a,,b" has three pieces).
RECURSIVE split(_, _)
split(chars, sep) ==
    IF \A i \in 1..Len(chars) : chars[i] # sep THEN << S(chars) >>
    ELSE LET k == CHOOSE i \in 1..Len(chars) :
                      /\ chars[i] = sep
                      /\ \A j \in 1..(i - 1) : chars[j] # sep
         IN  << S(SubSeq(chars, 1, k - 1)) >>
                 \o split(SubSeq(chars, k + 1, Len(chars)), sep)

\* sep.join(list of str)
RECURSIVE join(_, _)
join(sep, strs) ==
    IF strs = <<>> THEN <<>>
    ELSE IF Len(strs) = 1 THEN strs[1].s
    ELSE strs[1].s \o sep \o join(sep, Tail(strs))

\* seq[i] for a Python index i: 0-based, negative indices count from the end.
InRange(seq, i) == (0 - Len(seq)) <= i /\ i < Len(seq)
PyIndex(seq, i) == IF i >= 0 THEN seq[i + 1] ELSE seq[Len(seq) + i + 1]

\* seq[:n] for n >= 0
Prefix(seq, n) == SubSeq(seq, 1, IF n < Len(seq) THEN n ELSE Len(seq))

\* All sequences over set S of length 0..n
RECURSIVE SeqsUpTo(_, _)
SeqsUpTo(set, n) ==
    IF n = 0 THEN { <<>> }
    ELSE LET shorter == SeqsUpTo(set, n - 1)
         IN  shorter \cup { Append(q, e) : q \in { r \in shorter : Len(r) = n - 1 }, e \in set }

-----------------------------------------------------------------------------
(* get_column_name, src/options.py:12-20 *)

get_column_name(d, col) ==
    IF \E i \in 1..Len(d.columns) : d.columns[i] = col THEN Ok(col)
    ELSE IF IsIntLiteral(col.s)
         THEN LET k == IntLiteralVal(col.s)
              IN  IF InRange(d.columns, k - 1) THEN Ok(PyIndex(d.columns, k - 1))
                  ELSE Raise("IndexError")
         ELSE Ok(None)

-----------------------------------------------------------------------------
(* fill_list, src/options.py:122-136 *)

\* The builtin int passed as map_fn (lines 66-67).
int_fn == S(<<"i", "n", "t">>)

\* list(map(int, lst)): the first element int() rejects raises.
MapInt(elems) ==
    IF \E i \in 1..Len(elems) : int(elems[i]).exc # "none"
    THEN LET bad == CHOOSE i \in 1..Len(elems) :
                        /\ int(elems[i]).exc # "none"
                        /\ \A j \in 1..(i - 1) : int(elems[j]).exc = "none"
         IN  Raise(int(elems[bad]).exc)
    ELSE Ok(L([i \in 1..Len(elems) |-> int(elems[i]).val]))

fill_list_first_default(lst, default_vals, length, map_fn) ==
    LET lst0 == IF Falsy(lst) THEN <<>> ELSE lst.l
        dv == IF default_vals = None
              THEN << IF Len(lst0) >= 1 THEN lst0[1] ELSE None >>
              ELSE default_vals.l
        len == IF Falsy(length) THEN Len(dv) ELSE length.n
        padded == lst0 \o [i \in 1..(len - Len(lst0)) |-> None]
    IN  IF (\E i \in 1..Len(padded) : padded[i] = None) /\ Len(dv) = 0
        THEN Raise("ZeroDivisionError")
        ELSE LET filled == [i \in 1..Len(padded) |->
                               IF padded[i] = None THEN dv[1] ELSE padded[i]]
             IN  IF Falsy(map_fn) THEN Ok(L(filled)) ELSE MapInt(filled)

fill_list(lst, default_vals, length, map_fn) ==
    LET lst0 == IF Falsy(lst) THEN <<>> ELSE lst.l
        dv == IF default_vals = None
              THEN << IF Len(lst0) >= 1 THEN lst0[1] ELSE None >>
              ELSE default_vals.l
        len == IF Falsy(length) THEN Len(dv) ELSE length.n
        padded == lst0 \o [i \in 1..(len - Len(lst0)) |-> None]
    IN  IF (\E i \in 1..Len(padded) : padded[i] = None) /\ Len(dv) = 0
        THEN Raise("ZeroDivisionError")
        ELSE LET filled == [i \in 1..Len(padded) |->
                               IF padded[i] = None
                               THEN dv[((i - 1) % Len(dv)) + 1]
                               ELSE padded[i]]
             IN  IF Falsy(map_fn) THEN Ok(L(filled)) ELSE MapInt(filled)

-----------------------------------------------------------------------------
(* The table pd.read_csv returns (src/options.py:31): named columns in    *)
(* positional order, each with its values.                                 *)

Table3 ==
    [columns |-> << S(<<"t">>), S(<<"a">>), S(<<"b">>) >>,
     data |-> << L(<<I(0), I(1)>>), L(<<I(5), I(7)>>), L(<<I(9), I(8)>>) >>]

Table2 ==
    [columns |-> << S(<<"t">>), S(<<"a">>) >>,
     data |-> << L(<<I(0), I(1)>>), L(<<I(5), I(7)>>) >>]

Tables == {Table3, Table2}

\* df[name]: the values of the column called name, KeyError when there is none.
column_data(d, name) ==
    IF \E i \in 1..Len(d.columns) : d.columns[i] = name
    THEN Ok(d.data[CHOOSE i \in 1..Len(d.columns) : d.columns[i] = name])
    ELSE Raise("KeyError")

\* The first exception among the outcomes of a sequence of calls, "none" when
\* every call returned.
FirstExc(outcomes) ==
    IF \A i \in 1..Len(outcomes) : outcomes[i].exc = "none" THEN "none"
    ELSE outcomes[CHOOSE i \in 1..Len(outcomes) :
                      /\ outcomes[i].exc # "none"
                      /\ \A j \in 1..(i - 1) : outcomes[j].exc = "none"].exc

Vals(outcomes) == [i \in 1..Len(outcomes) |-> outcomes[i].val]

NotNone(v) == v # None

-----------------------------------------------------------------------------
(* validate_args up to the call of fill_args, src/options.py:22-36 *)

\* lines 24-27: val.split(',') for every option that is set
split_option(val) == IF val = None THEN None ELSE L(split(val.s, ","))

split_specific_attrs(a) ==
    [a EXCEPT !.xcol = split_option(a.xcol),
              !.ycol = split_option(a.ycol),
              !.legend = split_option(a.legend),
              !.color = split_option(a.color),
              !.style = split_option(a.style),
              !.marker = split_option(a.marker),
              !.linewidth = split_option(a.linewidth),
              !.markersize = split_option(a.markersize),
              !.time_format = split_option(a.time_format),
              !.resample = split_option(a.resample)]

\* lines 34-36: y tokens are resolved and the unresolved ones dropped, x tokens
\* are resolved and kept; an IndexError of get_column_name ends the run.
resolve_columns(d, a) ==
    LET sp == split_specific_attrs(a)
        ycols == [i \in 1..Len(sp.ycol.l) |-> get_column_name(d, sp.ycol.l[i])]
        xcols == [i \in 1..Len(sp.xcol.l) |-> get_column_name(d, sp.xcol.l[i])]
    IN  IF FirstExc(ycols) # "none" THEN Raise(FirstExc(ycols))
        ELSE IF FirstExc(xcols) # "none" THEN Raise(FirstExc(xcols))
        ELSE Ok([sp EXCEPT !.ycol = L(SelectSeq(Vals(ycols), NotNone)),
                           !.xcol = L(Vals(xcols))])

-----------------------------------------------------------------------------
(* fill_args, src/options.py:52-71 *)

\* line 62: ['C%d' % n for n in range(10)]
PaletteSize == 10
PaletteDigits == <<"0", "1", "2", "3", "4", "5", "6", "7", "8", "9">>
Palette == L([n \in 1..PaletteSize |-> S(<<"C", PaletteDigits[n]>>)])

\* line 59: the default sequence for the x columns, [args.xcol[-1]]
xcol_defaults_first(a) == L(<< PyIndex(a.xcol.l, 0) >>)

xcol_defaults(a) == L(<< PyIndex(a.xcol.l, 0 - 1) >>)

fill_args(a) ==
    LET num_graphs == Len(a.ycol.l)
        xcol == fill_list(a.xcol, xcol_defaults(a), I(num_graphs), None)
        legend == fill_list(a.legend, a.ycol, None, None)
        color == fill_list(a.color, Palette, None, None)
        style == fill_list(a.style, None, I(num_graphs), None)
        marker == fill_list(a.marker, None, I(num_graphs), None)
        linewidth == fill_list(a.linewidth, None, I(num_graphs), int_fn)
        markersize == fill_list(a.markersize, None, I(num_graphs), int_fn)
        time_format == fill_list(a.time_format, L(<<None>>), I(num_graphs), None)
        resample == fill_list(a.resample, L(<<None>>), I(num_graphs), None)
        sort == fill_list(L(<<a.sort>>), None, I(num_graphs), None)
        calls == <<xcol, legend, color, style, marker, linewidth, markersize,
                   time_format, resample, sort>>
    IN  IF FirstExc(calls) # "none" THEN Raise(FirstExc(calls))
        ELSE Ok([a EXCEPT !.xcol = xcol.val,
                          !.legend = legend.val,
                          !.color = L(Prefix(color.val.l, num_graphs)),
                          !.style = style.val,
                          !.marker = marker.val,
                          !.linewidth = linewidth.val,
                          !.markersize = markersize.val,
                          !.output = L([i \in 1..num_graphs |-> a.output]),
                          !.time_format = time_format.val,
                          !.resample = resample.val,
                          !.sort = sort.val])

-----------------------------------------------------------------------------
(* fill_global_args, src/options.py:73-119 *)

\* A (value, user_specified) tuple.
Pair(v, b) == L(<<v, B(b)>>)

\* float(v) for the strings of the model.
float(v) ==
    IF IsIntLiteral(v.s) THEN Ok(I(IntLiteralVal(v.s))) ELSE Raise("ValueError")

\* lines 84-89 and 101-106: a truthy range string is split on '-', '_' stands
\* for '-' inside a bound, every piece is converted by float().
fill_range(val) ==
    IF Falsy(val) THEN Ok(Pair(val, FALSE))
    ELSE LET vals == split(val.s, "-")
             floats == [i \in 1..Len(vals) |-> float(S(replace(vals[i].s, "_", "-")))]
         IN  IF FirstExc(floats) # "none" THEN Raise(FirstExc(floats))
             ELSE Ok(Pair(L(Vals(floats)), TRUE))

\* line 109: tuple(map(int, args.figsize.split('x')))
fill_figsize(val) ==
    LET ints == MapInt(split(val.s, "x"))
    IN  IF ints.exc # "none" THEN ints ELSE Ok(Pair(ints.val, TRUE))

Range(seq) == { seq[i] : i \in 1..Len(seq) }

\* The orders in which iterating set(args.xcol) can yield its elements: the
\* order follows the strings' hashes, which are salted per process.
Orders(set) ==
    { q \in [1..Cardinality(set) -> set] :
          \A i, j \in 1..Cardinality(set) : i # j => q[i] # q[j] }

\* lines 75-78: ', '.join(set(args.xcol)); join raises TypeError on a None item.
fill_xlabel(a, order) ==
    IF a.xlabel # None THEN Ok(Pair(a.xlabel, TRUE))
    ELSE IF \E i \in 1..Len(order) : order[i] = None THEN Raise("TypeError")
    ELSE Ok(Pair(S(join(<<",", " ">>, order)), FALSE))

\* lines 92-95
fill_ylabel(a) ==
    IF a.ylabel # None THEN Pair(a.ylabel, TRUE)
    ELSE Pair(S(join(<<",", " ">>, a.ycol.l)), FALSE)

\* lines 112-116, given the xlabel and ylabel tuples computed before
fill_title(a, xlabel, ylabel) ==
    IF Falsy(a.title)
    THEN Pair(S(ylabel.l[1].s \o <<" ", "v", "s", " ">> \o xlabel.l[1].s), FALSE)
    ELSE Pair(a.title, TRUE)

fill_global_args(a, order) ==
    LET xlabel == fill_xlabel(a, order)
        xrange == fill_range(a.xrange)
        ylabel == fill_ylabel(a)
        yrange == fill_range(a.yrange)
        figsize == fill_figsize(a.figsize)
        calls == <<xlabel, xrange, yrange, figsize>>
    IN  IF FirstExc(calls) # "none" THEN Raise(FirstExc(calls))
        ELSE Ok([a EXCEPT !.xlabel = xlabel.val,
                          !.xscale = Pair(a.xscale, a.xscale # None),
                          !.xrange = xrange.val,
                          !.ylabel = ylabel,
                          !.yscale = Pair(a.yscale, a.yscale # None),
                          !.yrange = yrange.val,
                          !.figsize = figsize.val,
                          !.title = fill_title(a, xlabel.val, ylabel),
                          !.fontsize = Pair(a.fontsize, TRUE)])

-----------------------------------------------------------------------------
(* validate_args after fill_global_args, src/options.py:46-50 *)

materialize(d, a) ==
    LET ycols == [i \in 1..Len(a.ycol.l) |-> column_data(d, a.ycol.l[i])]
        xcols == [i \in 1..Len(a.xcol.l) |-> column_data(d, a.xcol.l[i])]
    IN  IF FirstExc(ycols) # "none" THEN Raise(FirstExc(ycols))
        ELSE IF FirstExc(xcols) # "none" THEN Raise(FirstExc(xcols))
        ELSE Ok([a EXCEPT !.ycol = L(Vals(ycols)), !.xcol = L(Vals(xcols))])

-----------------------------------------------------------------------------
(* The namespaces parse_args hands to validate_args, src/options.py:138-195 *)

DefaultFontsize == 18

\* Every option at its argparse default.
Defaults ==
    [xcol |-> S(<<"1">>), ycol |-> S(<<"2">>), legend |-> None, color |-> None,
     style |-> None, marker |-> S(<<"o">>), linewidth |-> S(<<"2">>),
     markersize |-> S(<<"6">>), output |-> None, time_format |-> None,
     resample |-> None, sort |-> B(FALSE),
     xlabel |-> None, xscale |-> None, xrange |-> None,
     ylabel |-> None, yscale |-> None, yrange |-> None,
     figsize |-> S(<<"1", "6", "x", "1", "0">>), title |-> None,
     fontsize |-> I(DefaultFontsize), chain |-> B(FALSE)]

\* "tok,tok,...,tok" with n tokens
Repeat(tok, n) == S(join(<<",">>, [i \in 1..n |-> S(tok)]))

\* Column tokens: t, a, b name columns, z names none, digits are positions.
XcolInputs ==
    { S(<<"1">>), S(<<"t", ",", "a">>), S(<<"z", ",", "t">>), S(<<"t", ",", "z">>),
      S(<<"t", ",", "z", ",", "a">>), S(<<"9">>) }

YcolInputs ==
    { S(<<"2">>), S(<<"a", ",", "b">>), S(<<"z">>), S(<<"b", ",", "z">>),
      Repeat(<<"a">>, MaxSeries) }

LegendInputs == { None, S(<<"p", ",", "q", ",", "r">>) }
ColorInputs == { None, S(<<"r", ",", "g">>) }
StyleInputs == { None, S(<<"s", ",", "d">>) }
MarkerInputs == { S(<<"o">>), S(<<"o", ",", "x">>) }
LinewidthInputs == { S(<<"2">>), S(<<"2", ",", "w">>) }

XrangeInputs ==
    { None, S(<<>>), S(<<"5">>), S(<<"1", "-", "2", "-", "3">>),
      S(<<"_", "5", "-", "1">>), S(<<"1", "-", "w">>) }
YrangeInputs == { None, S(<<"2", "-", "4", "-", "6">>) }
TitleInputs == { None, S(<<>>), S(<<"T">>) }
XlabelInputs == { None, S(<<"X">>) }
YlabelInputs == { None, S(<<"Y">>) }

\* Runs that vary the per-series options, and runs that vary the global ones.
PerSeriesInputs ==
    { [Defaults EXCEPT !.xcol = x, !.ycol = y, !.legend = lg, !.color = c,
                       !.style = st, !.marker = m, !.linewidth = lw] :
          x \in XcolInputs, y \in YcolInputs, lg \in LegendInputs,
          c \in ColorInputs, st \in StyleInputs, m \in MarkerInputs,
          lw \in LinewidthInputs }

GlobalInputs ==
    { [Defaults EXCEPT !.xcol = x, !.ycol = y, !.xlabel = xl, !.xrange = xr,
                       !.ylabel = yl, !.yrange = yr, !.title = ti] :
          x \in XcolInputs, y \in YcolInputs, xl \in XlabelInputs,
          xr \in XrangeInputs, yl \in YlabelInputs, yr \in YrangeInputs,
          ti \in TitleInputs }

RawInputs == PerSeriesInputs \cup GlobalInputs

Exceptions ==
    {"IndexError", "ValueError", "TypeError", "KeyError", "ZeroDivisionError"}

-----------------------------------------------------------------------------
(* One call of fill_list and one call of get_column_name *)

ListElems == { None, S(<<"1">>), S(<<"p">>) }
DefaultElems == { S(<<"7">>), S(<<"d">>) }

ListInputs == { None } \cup { L(q) : q \in SeqsUpTo(ListElems, MaxLst) }
DefaultsInputs == { None } \cup { L(q) : q \in SeqsUpTo(DefaultElems, MaxDefaults) }
LengthInputs == { None } \cup { I(n) : n \in 0..MaxLength }
MapFnInputs == { None, int_fn }

TokenChars == { "-", "0", "1", "2", "3", "4", "5", "a", "z" }
TokenInputs == { S(q) : q \in SeqsUpTo(TokenChars, MaxTokenLen) }

IdleCall == [pc |-> "idle"]

-----------------------------------------------------------------------------
(* Actions *)

\* validate_args, lines 24-36
ResolveColumns ==
    /\ pc = "validate"
    /\ LET r == resolve_columns(df, args)
       IN  IF r.exc = "none"
           THEN args' = r.val /\ pc' = "fill_args"
           ELSE args' = args /\ pc' = r.exc
    /\ UNCHANGED <<raw, df, prev, fl, gc>>

\* validate_args, line 40
FillArgs ==
    /\ pc = "fill_args"
    /\ LET r == fill_args(args)
       IN  IF r.exc = "none"
           THEN args' = r.val /\ pc' = "fill_global_args"
           ELSE args' = args /\ pc' = r.exc
    /\ UNCHANGED <<raw, df, prev, fl, gc>>

\* validate_args, line 44
FillGlobalArgs ==
    /\ pc = "fill_global_args"
    /\ \E order \in Orders(Range(args.xcol.l)) :
           LET r == fill_global_args(args, order)
           IN  IF r.exc = "none"
               THEN args' = r.val /\ pc' = "materialize"
               ELSE args' = args /\ pc' = r.exc
    /\ UNCHANGED <<raw, df, prev, fl, gc>>

\* validate_args, lines 47-50
Materialize ==
    /\ pc = "materialize"
    /\ LET r == materialize(df, args)
       IN  IF r.exc = "none"
           THEN args' = r.val /\ pc' = "done"
           ELSE args' = args /\ pc' = r.exc
    /\ UNCHANGED <<raw, df, prev, fl, gc>>

\* The program is invoked again on the same options and the same file.
Rerun ==
    /\ pc = "done"
    /\ prev = None
    /\ prev' = args
    /\ args' = raw
    /\ pc' = "validate"
    /\ UNCHANGED <<raw, df, fl, gc>>

Init ==
    /\ pc = "validate"
    /\ raw \in RawInputs
    /\ df \in Tables
    /\ args = raw
    /\ prev = None
    /\ fl = IdleCall
    /\ gc = IdleCall

Next == ResolveColumns \/ FillArgs \/ FillGlobalArgs \/ Materialize \/ Rerun

Spec == Init /\ [][Next]_vars

\* fill_list(lst, default_vals, length, map_fn) on inputs from bounded sets
CallFillList ==
    /\ fl.pc = "call"
    /\ fl' = [fl EXCEPT !.pc = "done",
                        !.out = fill_list(fl.lst, fl.default_vals, fl.length, fl.map_fn)]
    /\ UNCHANGED <<pc, raw, df, args, prev, gc>>

InitFillList ==
    /\ pc = "idle"
    /\ raw = None
    /\ df = Table3
    /\ args = None
    /\ prev = None
    /\ gc = IdleCall
    /\ fl \in [pc : {"call"}, lst : ListInputs, default_vals : DefaultsInputs,
               length : LengthInputs, map_fn : MapFnInputs, out : {Ok(None)}]

NextFillList == CallFillList

SpecFillList == InitFillList /\ [][NextFillList]_vars

\* get_column_name(df, col) on inputs from bounded sets
CallGetColumnName ==
    /\ gc.pc = "call"
    /\ gc' = [gc EXCEPT !.pc = "done", !.out = get_column_name(df, gc.col)]
    /\ UNCHANGED <<pc, raw, df, args, prev, fl>>

InitGetColumnName ==
    /\ pc = "idle"
    /\ raw = None
    /\ df \in Tables
    /\ args = None
    /\ prev = None
    /\ fl = IdleCall
    /\ gc \in [pc : {"call"}, col : TokenInputs, out : {Ok(None)}]

NextGetColumnName == CallGetColumnName

SpecGetColumnName == InitGetColumnName /\ [][NextGetColumnName]_vars

-----------------------------------------------------------------------------
(* Properties of one run of validate_args (specification Spec) *)

\* The per-series lists fill_args assigns, and the y list they follow.
FilledLists ==
    {"xcol", "legend", "color", "style", "marker", "linewidth", "markersize",
     "output", "time_format", "resample", "sort"}

NumGraphs == Len(args.ycol.l)

\* The x and y tokens the user gave, and whether a token is non-numeric and
\* names no column of the table.
XTokens == split(raw.xcol.s, ",")
YTokens == split(raw.ycol.s, ",")
Unresolvable(tok) == ~IsIntLiteral(tok.s) /\ tok \notin Range(df.columns)

AfterFillArgs == pc = "fill_global_args"
AfterFillGlobalArgs == pc = "materialize"

\* C1: after fill_args every per-series list (xcol, ycol, legend, color, style,
\* marker, linewidth, markersize, output, time_format, resample, sort) has
\* exactly N elements, N the number of y tokens that resolved to a column.
C1_EveryListHasLengthN ==
    AfterFillArgs => \A f \in FilledLists : Len(args[f].l) = NumGraphs

\* C2: with no color option and N >= 1 series the color list has N entries and
\* entry i (from 0) is the palette colour 'C(i mod 10)'.
C2_DefaultColorsCycle ==
    (AfterFillArgs /\ raw.color = None /\ NumGraphs >= 1) =>
        /\ Len(args.color.l) = NumGraphs
        /\ \A i \in 1..Len(args.color.l) :
               args.color.l[i] = Palette.l[((i - 1) % PaletteSize) + 1]

\* C4 as claimed: an x token that is non-numeric and names no column is None at
\* its own position of the x list after fill_args, whatever its position.
C4_UnresolvedXStaysNone ==
    AfterFillArgs =>
        /\ Len(args.xcol.l) >= Len(XTokens)
        /\ \A i \in 1..Len(XTokens) :
               Unresolvable(XTokens[i]) => args.xcol.l[i] = None

\* C4 as amended: such a token is None at its own position when fill_args is
\* entered (validate_args drops no x entry), and fill_args puts the list's last
\* entry there: it is None afterwards exactly when the last x token is
\* unresolvable too.
C4_UnresolvedXTakesLastX ==
    /\ pc = "fill_args" =>
           /\ Len(args.xcol.l) = Len(XTokens)
           /\ \A i \in 1..Len(XTokens) :
                  Unresolvable(XTokens[i]) => args.xcol.l[i] = None
    /\ AfterFillArgs =>
           /\ Len(args.xcol.l) >= Len(XTokens)
           /\ args.xcol.l[Len(XTokens)] = None
                  <=> Unresolvable(XTokens[Len(XTokens)])
           /\ \A i \in 1..Len(XTokens) :
                  Unresolvable(XTokens[i]) =>
                      args.xcol.l[i] = args.xcol.l[Len(XTokens)]

\* C4's case: fill_args has run on an x list with an unresolvable token before
\* a resolvable last one, and the token's position now names a column.
C4_UnresolvedXReplaced ==
    /\ AfterFillArgs
    /\ \E i \in 1..(Len(XTokens) - 1) :
           /\ Unresolvable(XTokens[i])
           /\ ~Unresolvable(XTokens[Len(XTokens)])
           /\ args.xcol.l[i] # None

\* C5: when every y token is unresolvable (N = 0) the run does not fail on the
\* empty series list (no division by the length of an empty default list) and
\* every per-series list fill_args produces is empty.
C5_NoSeriesGivesEmptyLists ==
    (\A i \in 1..Len(YTokens) : Unresolvable(YTokens[i])) =>
        /\ pc # "ZeroDivisionError"
        /\ AfterFillArgs => \A f \in FilledLists : args[f] = L(<<>>)

\* C6: a given (non-empty) xrange or yrange string gets through
\* fill_global_args only if splitting it on '-' yields exactly two bounds, and
\* is then a 2-element list marked user_specified.
C6_RangeHasTwoBounds ==
    \A f \in {"xrange", "yrange"} :
        (AfterFillGlobalArgs /\ ~Falsy(raw[f])) =>
            /\ Len(split(raw[f].s, "-")) = 2
            /\ Len(args[f].l[1].l) = 2
            /\ args[f].l[2] = B(TRUE)

\* C7: xlabel and ylabel are (given string, true) or (the ', '-join of the
\* de-duplicated x identifiers resp. of the y identifiers, false); the title is
\* ("<ylabel value> vs <xlabel value>", false) when the title option is unset
\* and (the given string, true) for every title string the user gave.
C7_TitleFromResolvedLabels ==
    AfterFillGlobalArgs =>
        /\ IF raw.xlabel = None
           THEN \E order \in Orders(Range(args.xcol.l)) :
                    args.xlabel = Pair(S(join(<<",", " ">>, order)), FALSE)
           ELSE args.xlabel = Pair(raw.xlabel, TRUE)
        /\ IF raw.ylabel = None
           THEN args.ylabel = Pair(S(join(<<",", " ">>, args.ycol.l)), FALSE)
           ELSE args.ylabel = Pair(raw.ylabel, TRUE)
        /\ IF raw.title = None
           THEN args.title =
                    Pair(S(args.ylabel.l[1].s \o <<" ", "v", "s", " ">>
                               \o args.xlabel.l[1].s), FALSE)
           ELSE args.title = Pair(raw.title, TRUE)

\* C10: two runs of validate_args on the same options and the same table return
\* the same resolved configuration.
C10_RunsAgree ==
    (pc = "done" /\ prev # None) => args = prev

-----------------------------------------------------------------------------
(* Properties of get_column_name (specification SpecGetColumnName) *)

\* C3: a token that names no column and parses as the integer k resolves to
\* the column at position k (from 1) when 1 <= k <= number of columns, and
\* raises IndexError for every other k.
C3_IntegerTokenResolution ==
    (gc.pc = "done" /\ gc.col \notin Range(df.columns) /\ IsIntLiteral(gc.col.s)) =>
        LET k == IntLiteralVal(gc.col.s)
        IN  IF 1 <= k /\ k <= Len(df.columns)
            THEN gc.out = Ok(df.columns[k])
            ELSE gc.out.exc = "IndexError"

-----------------------------------------------------------------------------
(* Properties of fill_list (specification SpecFillList) *)

FlInput == IF fl.lst = None THEN <<>> ELSE fl.lst.l

\* A call with an explicit non-empty default sequence, a target length >= 1
\* and no map_fn.
FlPlainCall ==
    /\ fl.pc = "done"
    /\ fl.default_vals # None
    /\ Len(fl.default_vals.l) >= 1
    /\ fl.length # None
    /\ fl.length.n >= 1
    /\ fl.map_fn = None

\* C8: the result holds the input's element at every position where the input
\* has a non-placeholder element and defaults[i mod len(defaults)] elsewhere;
\* it is as long as the longer of the input and the target length, so no input
\* element is dropped or moved.
C8_FillListPositions ==
    FlPlainCall =>
        /\ fl.out.exc = "none"
        /\ Len(fl.out.val.l) =
               (IF Len(FlInput) > fl.length.n THEN Len(FlInput) ELSE fl.length.n)
        /\ \A i \in 1..Len(fl.out.val.l) :
               fl.out.val.l[i] =
                   IF i <= Len(FlInput) /\ FlInput[i] # None
                   THEN FlInput[i]
                   ELSE fl.default_vals.l[((i - 1) % Len(fl.default_vals.l)) + 1]

\* C8's case: an input longer than the target length that holds a placeholder
\* beyond the first default's position, filled from a two-element default list.
C8_LongInputFilled ==
    /\ FlPlainCall
    /\ Len(FlInput) > fl.length.n
    /\ Len(fl.default_vals.l) = 2
    /\ \E i \in 2..Len(FlInput) : FlInput[i] = None
    /\ fl.out.exc = "none"

\* C9: on a list with no None whose length is the target length (length 0 and
\* the empty list included) fill_list returns the list itself, for every
\* default sequence.
C9_FillListIdempotent ==
    ( /\ fl.pc = "done"
      /\ fl.lst # None
      /\ \A i \in 1..Len(fl.lst.l) : fl.lst.l[i] # None
      /\ fl.length = I(Len(fl.lst.l))
      /\ fl.map_fn = None ) =>
        fl.out = Ok(fl.lst)

====
